---- MODULE Spec2Model ----
(***************************************************************************)
(* Model of examples/linkproppred/ppa/mf.py: the LinkPredictor scorer, one *)
(* training epoch (train), one evaluation (test) and the run/epoch loop of *)
(* main.  Tensors are sequences of integers, a score is the numerator of a *)
(* fixed-point number, a Hits@K value is a pair <<hits, positives>>.       *)
(***************************************************************************)
EXTENDS Integers, Sequences, FiniteSets, TLC

VARIABLES
    args,            \* parsed command line: runs, epochs, eval_steps, batch_size, num_layers
    data,            \* dataset: num_nodes and the edge split
    pc,              \* position in main
    run,             \* loop variable of main, 0-based
    epoch,           \* loop variable of main, 1-based
    x,               \* x.weight, the embedding table, node id -> value
    lins,            \* predictor.lins, a sequence of [w, b]
    norms,           \* predictor.norms, a sequence of running statistics
    training,        \* predictor.training
    optimizer,       \* the optimizer main holds
    batches,         \* what the DataLoader of train() still has to yield
    total_examples,  \* train()'s accumulator
    pos_edge,        \* train(): the positive batch last taken
    edge,            \* train(): the negative batch last drawn, <<row0, row1>>
    trace,           \* the operations of the last predictor call
    preds,           \* test(): the prediction tensors of the last evaluation
    results,         \* test(): the mapping last returned
    loggers,         \* key -> run -> sequence of result triples
    hist             \* bookkeeping: what has happened so far

vars == <<args, data, pc, run, epoch, x, lins, norms, training, optimizer, batches,
          total_examples, pos_edge, edge, trace, preds, results, loggers, hist>>

(***************************************************************************)
(* Bounds of the model.                                                    *)
(***************************************************************************)
MaxRuns == 2
MaxEpochs == 2
MaxEvalSteps == 2
MaxBatch == 3
MaxLayers == 3
MaxInit == 1
SigSat == 40

(***************************************************************************)
(* Program constants.                                                      *)
(***************************************************************************)
neg_per_pos == 2
DropoutP == 0
Ks == <<10, 50, 100>>

Min(a, b) == IF a < b THEN a ELSE b
Max(a, b) == IF a > b THEN a ELSE b
Rep(e, n) == [i \in 1..n |-> e]

(***************************************************************************)
(* LinkPredictor                                                           *)
(***************************************************************************)
\* __init__: one Linear, then num_layers - 2 more, then the output Linear.
NumLins(num_layers) == 1 + Max(num_layers - 2, 0) + 1

\* __init__: one BatchNorm1d, then num_layers - 2 more.
NumNorms(num_layers) == 1 + Max(num_layers - 2, 0)

\* forward: zip(self.lins[:-1], self.norms) stops at the shorter of the two.
NumHidden(ls, ns) == Min(Len(ls) - 1, Len(ns))

Linear(lin, z) == lin.w * z + lin.b

Relu(z) == IF z > 0 THEN z ELSE 0

\* F.dropout: the identity unless training with p > 0, where the element is zeroed.
Dropout(z, p, tr) == IF tr /\ p > 0 THEN 0 ELSE z

\* torch.sigmoid in fixed point: monotone, saturating, strictly inside the range.
Sigmoid(z) == Min(Max(z, -SigSat), SigSat) + SigSat + 1

\* Body of the loop of forward, iteration i: lin, relu, dropout.
HiddenOps(i, tr) ==
    << [op |-> "lin", layer |-> i],
       [op |-> "relu", layer |-> i],
       [op |-> "dropout", layer |-> i, active |-> tr] >>

HiddenVal(ls, i, z, tr) == Dropout(Relu(Linear(ls[i], z)), DropoutP, tr)

RECURSIVE LoopOps(_, _, _)
LoopOps(i, m, tr) == IF i > m THEN <<>> ELSE HiddenOps(i, tr) \o LoopOps(i + 1, m, tr)

RECURSIVE LoopVal(_, _, _, _, _)
LoopVal(ls, i, m, z, tr) ==
    IF i > m THEN z ELSE LoopVal(ls, i + 1, m, HiddenVal(ls, i, z, tr), tr)

\* forward(x_i, x_j): the operations applied, in order.
ForwardOps(ls, ns, tr) ==
    << [op |-> "mul"] >> \o LoopOps(1, NumHidden(ls, ns), tr)
        \o << [op |-> "lin", layer |-> Len(ls)], [op |-> "sigmoid"] >>

\* forward(x_i, x_j): the value returned.
Forward(ls, ns, xi, xj, tr) ==
    Sigmoid(Linear(ls[Len(ls)], LoopVal(ls, 1, NumHidden(ls, ns), xi * xj, tr)))

\* predictor(x(edge[0]), x(edge[1])) on a batch of node pairs: one score per pair.
Predict(xw, ls, ns, tr, pairs) ==
    [i \in 1..Len(pairs) |-> Forward(ls, ns, xw[pairs[i][1]], xw[pairs[i][2]], tr)]

\* x.reset_parameters(): a fresh random table.
XInit(n) == {[u \in 0..(n - 1) |-> u + s] : s \in 0..MaxInit}

\* predictor.reset_parameters(): every Linear and every BatchNorm1d is reset.
LinsInit(num_layers) ==
    {[l \in 1..NumLins(num_layers) |-> [w |-> c, b |-> 0]] : c \in {-2, 1}}

NormsInit(num_layers) == [l \in 1..NumNorms(num_layers) |-> [mean |-> 0, var |-> 1]]

\* optimizer.step() on x.weight; the size of the update is abstracted to one quantum.
StepX(xw) == [u \in DOMAIN xw |-> xw[u] + 1]

\* optimizer.step() on the predictor's Linear layers.
StepLins(ls) == [l \in 1..Len(ls) |-> [w |-> ls[l].w + 1, b |-> ls[l].b]]

(***************************************************************************)
(* Collaborators: DataLoader, tensors, Logger, Evaluator                   *)
(***************************************************************************)
\* A DataLoader that drops the last, incomplete chunk.
ChunksDropLast(s, b) ==
    [k \in 1..(Len(s) \div b) |-> SubSeq(s, (k - 1) * b + 1, k * b)]

\* DataLoader slices its index sequence into chunks of batch_size (drop_last is False).
Chunks(s, b) ==
    [k \in 1..((Len(s) + b - 1) \div b) |-> SubSeq(s, (k - 1) * b + 1, Min(k * b, Len(s)))]

\* DataLoader(range(n), batch_size, shuffle=True): the orders a RandomSampler can draw.
Shuffles(n) == {p \in [1..n -> 0..(n - 1)] : \A i, j \in 1..n : p[i] = p[j] => i = j}

\* DataLoader(range(n), batch_size): sequential order.
Sequential(n) == [i \in 1..n |-> i - 1]

\* tensor[perm]: the rows at the (0-based) indices of perm.
Index(t, perm) == [i \in 1..Len(perm) |-> t[perm[i] + 1]]

\* Tensor.squeeze() of a [b, 1] tensor: a [b] tensor, or a 0-dim tensor when b = 1.
Squeeze(v) == [dim |-> IF Len(v) = 1 THEN 0 ELSE 1, v |-> v]

\* The elements of the tensors of a list, in order.
RECURSIVE Flatten(_)
Flatten(ts) ==
    IF Len(ts) = 0 THEN <<>>
    ELSE IF Len(ts) = 1 THEN ts[1].v
    ELSE LET h == Len(ts) \div 2
         IN  Flatten(SubSeq(ts, 1, h)) \o Flatten(SubSeq(ts, h + 1, Len(ts)))

\* torch.cat(ts, dim=0): raises on an empty list and on a 0-dim tensor.
Cat(ts) ==
    IF ts = <<>> \/ \E i \in 1..Len(ts) : ts[i].dim = 0
    THEN [ok |-> FALSE, v |-> <<>>]
    ELSE [ok |-> TRUE, v |-> Flatten(ts)]

\* Mask indexing with the comparison inverted.
MaskInverted(t, label, val) ==
    LET tagged == [i \in 1..Len(t) |-> <<t[i], label[i]>>]
        kept == SelectSeq(tagged, LAMBDA e : e[2] # val)
    IN  [i \in 1..Len(kept) |-> kept[i][1]]

\* tensor[label == val]: boolean-mask indexing, the kept elements in their order.
Mask(t, label, val) ==
    LET tagged == [i \in 1..Len(t) |-> <<t[i], label[i]>>]
        kept == SelectSeq(tagged, LAMBDA e : e[2] = val)
    IN  [i \in 1..Len(kept) |-> kept[i][1]]

\* Logger.__init__: one empty history per run.
NewLogger(runs) == [r \in 0..(runs - 1) |-> <<>>]

\* Logger.add_result(run, result).
AddResult(logger, r, result) == [logger EXCEPT ![r] = Append(@, result)]

\* Number of negative scores that are not below p.
NotBelow(neg, p) == Cardinality({j \in 1..Len(neg) : neg[j] >= p})

\* Evaluator.eval with evaluator.K = k: the fraction of the positive scores above the
\* k-th highest negative score, as <<numerator, denominator>>.
HitsAtK(pos, neg, k) ==
    << Cardinality({i \in 1..Len(pos) : NotBelow(neg, pos[i]) < k}), Len(pos) >>

(***************************************************************************)
(* test()                                                                  *)
(***************************************************************************)
\* One scoring loop of test(): the list of squeezed batch predictions.
ScoreBatches(xw, ls, ns, tr, edges, b) ==
    LET bs == Chunks(Sequential(Len(edges)), b)
    IN  [i \in 1..Len(bs) |-> Squeeze(Predict(xw, ls, ns, tr, Index(edges, bs[i])))]

\* The tensors test() builds from the three scoring loops.
Preds(xw, ls, ns, tr, d, b) ==
    LET tr_c == Cat(ScoreBatches(xw, ls, ns, tr, d.train_edge, b))
        va_c == Cat(ScoreBatches(xw, ls, ns, tr, d.valid_edge, b))
        te_c == Cat(ScoreBatches(xw, ls, ns, tr, d.test_edge, b))
    IN  [ok |-> tr_c.ok /\ va_c.ok /\ te_c.ok,
         mode |-> tr,
         pos_train_pred |-> tr_c.v,
         valid_pred |-> va_c.v,
         pos_valid_pred |-> Mask(va_c.v, d.valid_edge_label, 1),
         neg_valid_pred |-> Mask(va_c.v, d.valid_edge_label, 0),
         test_pred |-> te_c.v,
         pos_test_pred |-> Mask(te_c.v, d.test_edge_label, 1),
         neg_test_pred |-> Mask(te_c.v, d.test_edge_label, 0)]

\* f'Hits@{K}'
KeyOf(k) == CASE k = 10 -> "Hits@10" [] k = 50 -> "Hits@50" [] k = 100 -> "Hits@100"

Keys == {KeyOf(Ks[i]) : i \in 1..Len(Ks)}

KOfKey(key) == CHOOSE k \in {Ks[i] : i \in 1..Len(Ks)} : KeyOf(k) = key

\* The values of K paired with the keys in reverse order.
EvaluatorKReversed(k) == 110 - k

\* evaluator.K = K
EvaluatorK(k) == k

\* Train positives ranked against the test negatives.
TrainNegTest(p) == p.neg_test_pred

\* 'y_pred_neg' of the train_hits call.
TrainNeg(p) == p.neg_valid_pred

\* The body of the loop over K: the triple stored under f'Hits@{K}'.
HitsTriple(p, k) ==
    << HitsAtK(p.pos_train_pred, TrainNeg(p), EvaluatorK(k)),
       HitsAtK(p.pos_valid_pred, p.neg_valid_pred, EvaluatorK(k)),
       HitsAtK(p.pos_test_pred, p.neg_test_pred, EvaluatorK(k)) >>

\* The mapping test() returns.
Results(p) == [key \in Keys |-> HitsTriple(p, KOfKey(key))]

(***************************************************************************)
(* train()                                                                 *)
(***************************************************************************)
\* train() without the call of predictor.train(): the mode is left as it is.
PredictorTrainSkipped(tr) == tr

\* predictor.train()
PredictorTrain(tr) == TRUE

\* predictor.eval()
PredictorEval(tr) == FALSE

\* One negative per positive.
NegSizeSingle(b) == b

\* The number of columns of the negative edge tensor for a positive batch of b edges.
NegSize(b) == neg_per_pos * b

\* torch.randint(0, n, (2, m)): the tensors that can be drawn.
RandInt(n, m) == [1..m -> 0..(n - 1)] \X [1..m -> 0..(n - 1)]

\* edge.t(): the columns of a [2, m] tensor as node pairs.
Pairs(e) == [i \in 1..Len(e[1]) |-> <<e[1][i], e[2][i]>>]

(***************************************************************************)
(* main()                                                                  *)
(***************************************************************************)
\* Every epoch is evaluated.
EvalDueAlways(e, eval_steps) == TRUE

\* if epoch % args.eval_steps == 0
EvalDue(e, eval_steps) == e % eval_steps = 0

\* for epoch in range(1, 1 + args.epochs): where main goes after an epoch's body.
AfterEpoch(e, epochs) == IF e < epochs THEN "train" ELSE "run_end"

\* The resets hoisted out of the loop over the runs: later runs start training at once.
AfterRunNoReset(r, runs) == IF r + 1 < runs THEN "train" ELSE "final"

\* for run in range(args.runs): where main goes after a run's body.
AfterRun(r, runs) == IF r + 1 < runs THEN "run_start" ELSE "final"

\* torch.optim.Adam(...): built over the parameters as they are after `resets` resets
\* of this run.
NewOptimizer(id, r, resets) == [id |-> id, run |-> r, resets |-> resets]

NoPreds == [ok |-> FALSE, mode |-> TRUE, pos_train_pred |-> <<>>, valid_pred |-> <<>>,
            pos_valid_pred |-> <<>>, neg_valid_pred |-> <<>>, test_pred |-> <<>>,
            pos_test_pred |-> <<>>, neg_test_pred |-> <<>>]

NoTrace == [by |-> "none", mode |-> TRUE, ops |-> <<>>]

\* The state main is in when it enters the loop over the runs.
InitWith(inputs) ==
    \E in \in inputs :
        /\ args = in.args
        /\ data = in.data
        /\ pc = "run_start"
        /\ run = 0
        /\ epoch = 0
        /\ x \in XInit(in.data.num_nodes)
        /\ lins \in LinsInit(in.args.num_layers)
        /\ norms = NormsInit(in.args.num_layers)
        /\ training = TRUE
        /\ optimizer = [id |-> 0, run |-> -1, resets |-> 0]
        /\ batches = <<>>
        /\ total_examples = 0
        /\ pos_edge = <<>>
        /\ edge = <<<<>>, <<>>>>
        /\ trace = NoTrace
        /\ preds = NoPreds
        /\ results = <<>>
        /\ loggers = [key \in {"Hits@10", "Hits@50", "Hits@100"} |-> NewLogger(in.args.runs)]
        /\ hist = [xResets |-> [r \in 0..(in.args.runs - 1) |-> 0],
                   pResets |-> [r \in 0..(in.args.runs - 1) |-> 0],
                   trained |-> [r \in 0..(in.args.runs - 1) |-> 0],
                   evals |-> [r \in 0..(in.args.runs - 1) |-> <<>>],
                   draws |-> 0,
                   steps |-> 0,
                   yielded |-> <<>>,
                   last |-> "init"]

\* for run in range(args.runs): reset both models and build the run's optimizer.
ResetRun ==
    /\ pc = "run_start"
    /\ x' \in XInit(data.num_nodes)
    /\ lins' \in LinsInit(args.num_layers)
    /\ norms' = NormsInit(args.num_layers)
    /\ epoch' = 1
    /\ pc' = "train"
    /\ hist' = [hist EXCEPT !.xResets[run] = @ + 1, !.pResets[run] = @ + 1,
                            !.last = "reset"]
    /\ optimizer' = NewOptimizer(optimizer.id + 1, run,
                                 hist'.xResets[run] + hist'.pResets[run])
    /\ UNCHANGED <<args, data, run, training, batches, total_examples, pos_edge, edge,
                   trace, preds, results, loggers>>

\* train(): up to the first iteration of the DataLoader.
TrainBegin ==
    /\ pc = "train"
    /\ training' = PredictorTrain(training)
    /\ \E perm \in Shuffles(Len(data.train_edge)) :
           batches' = Chunks(perm, args.batch_size)
    /\ total_examples' = 0
    /\ pc' = "batch"
    /\ hist' = [hist EXCEPT !.yielded = <<>>, !.last = "train"]
    /\ UNCHANGED <<args, data, run, epoch, x, lins, norms, optimizer, pos_edge, edge,
                   trace, preds, results, loggers>>

\* train(): one iteration of the loop over the batches.
TrainBatch ==
    /\ pc = "batch"
    /\ batches # <<>>
    /\ LET perm == Head(batches)
           pos == Index(data.train_edge, perm)
       IN  /\ pos_edge' = pos
           /\ edge' \in RandInt(data.num_nodes, NegSize(Len(pos)))
           /\ trace' = [by |-> "train", mode |-> training,
                        ops |-> ForwardOps(lins, norms, training)]
           /\ total_examples' = total_examples + Len(pos)
           /\ hist' = [hist EXCEPT !.yielded = Append(@, perm),
                                   !.trained[run] = @ + 1,
                                   !.draws = @ + 1,
                                   !.steps = @ + 1,
                                   !.last = "batch"]
    /\ x' = StepX(x)
    /\ lins' = StepLins(lins)
    /\ batches' = Tail(batches)
    /\ UNCHANGED <<args, data, pc, run, epoch, norms, training, optimizer, preds,
                   results, loggers>>

\* train() returns; main decides whether the epoch is evaluated.
TrainEnd ==
    /\ pc = "batch"
    /\ batches = <<>>
    /\ pos_edge' = <<>>
    /\ edge' = <<<<>>, <<>>>>
    /\ IF EvalDue(epoch, args.eval_steps)
       THEN pc' = "eval" /\ epoch' = epoch
       ELSE pc' = AfterEpoch(epoch, args.epochs) /\ epoch' = Min(epoch + 1, args.epochs)
    /\ hist' = [hist EXCEPT !.yielded = <<>>, !.last = "trained"]
    /\ UNCHANGED <<args, data, run, x, lins, norms, training, optimizer, batches,
                   total_examples, trace, preds, results, loggers>>

\* test(), then main records the results in the loggers.
Test ==
    /\ pc = "eval"
    /\ training' = PredictorEval(training)
    /\ LET p == Preds(x, lins, norms, training', data, args.batch_size)
       IN  /\ preds' = p
           /\ trace' = [by |-> "test", mode |-> training',
                        ops |-> ForwardOps(lins, norms, training')]
           /\ IF p.ok
              THEN /\ results' = Results(p)
                   /\ loggers' = [key \in DOMAIN loggers |->
                                    IF key \in DOMAIN results'
                                    THEN AddResult(loggers[key], run, results'[key])
                                    ELSE loggers[key]]
                   /\ pc' = AfterEpoch(epoch, args.epochs)
                   /\ epoch' = Min(epoch + 1, args.epochs)
                   /\ hist' = [hist EXCEPT !.evals[run] = Append(@, epoch),
                                           !.last = "tested"]
              ELSE /\ pc' = "crashed"
                   /\ hist' = [hist EXCEPT !.last = "crashed"]
                   /\ UNCHANGED <<results, loggers, epoch>>
    /\ UNCHANGED <<args, data, run, x, lins, norms, optimizer, batches, total_examples,
                   pos_edge, edge>>

\* loggers[key].print_statistics(run), then the next run.
RunEnd ==
    /\ pc = "run_end"
    /\ run' = run + 1
    /\ pc' = AfterRun(run, args.runs)
    /\ hist' = [hist EXCEPT !.last = "run_end"]
    /\ UNCHANGED <<args, data, epoch, x, lins, norms, training, optimizer, batches,
                   total_examples, pos_edge, edge, trace, preds, results, loggers>>

\* loggers[key].print_statistics() after the last run.
Final ==
    /\ pc = "final"
    /\ pc' = "done"
    /\ hist' = [hist EXCEPT !.last = "final"]
    /\ UNCHANGED <<args, data, run, epoch, x, lins, norms, training, optimizer, batches,
                   total_examples, pos_edge, edge, trace, preds, results, loggers>>

Next == ResetRun \/ TrainBegin \/ TrainBatch \/ TrainEnd \/ Test \/ RunEnd \/ Final

(***************************************************************************)
(* Inputs: command lines and datasets                                      *)
(***************************************************************************)
\* A small split over two nodes; every evaluation set has an even size.
DataSmall ==
    [num_nodes |-> 2,
     train_edge |-> << <<0, 1>>, <<1, 1>> >>,
     valid_edge |-> << <<0, 0>>, <<0, 1>>, <<1, 1>>, <<1, 0>>, <<0, 0>>, <<1, 1>> >>,
     valid_edge_label |-> <<1, 0, 1, 0, 0, 1>>,
     test_edge |-> << <<1, 1>>, <<0, 1>>, <<0, 0>>, <<1, 0>>, <<1, 1>>, <<0, 1>> >>,
     test_edge_label |-> <<0, 1, 1, 0, 1, 0>>]

\* A split whose validation and test sets hold more than 100 negatives.
DataBig ==
    [num_nodes |-> 2,
     train_edge |-> << <<0, 1>>, <<1, 1>> >>,
     valid_edge |-> << <<1, 1>> >> \o Rep(<<1, 1>>, 12) \o << <<0, 1>> >>
                        \o Rep(<<0, 1>>, 45) \o Rep(<<0, 0>>, 48) \o << <<0, 0>> >>,
     valid_edge_label |-> <<1>> \o Rep(0, 12) \o <<1>> \o Rep(0, 45) \o Rep(0, 48) \o <<1>>,
     test_edge |-> Rep(<<0, 0>>, 92) \o << <<0, 0>>, <<0, 1>> >> \o Rep(<<1, 0>>, 20)
                        \o << <<1, 1>> >> \o Rep(<<1, 1>>, 5),
     test_edge_label |-> Rep(0, 92) \o <<1, 1>> \o Rep(0, 20) \o <<1>> \o Rep(0, 5)]

\* A split whose validation set leaves a single edge for the last batch of 2 or 3.
DataOdd ==
    [num_nodes |-> 2,
     train_edge |-> << <<0, 0>>, <<0, 1>> >>,
     valid_edge |-> << <<0, 0>>, <<0, 1>>, <<1, 1>>, <<1, 0>>, <<0, 0>>, <<1, 1>>, <<0, 1>> >>,
     valid_edge_label |-> <<1, 0, 1, 0, 0, 1, 0>>,
     test_edge |-> << <<1, 1>>, <<0, 1>> >>,
     test_edge_label |-> <<0, 1>>]

\* A split with three train edges, for the batches of one epoch.
DataTrain ==
    [num_nodes |-> 2,
     train_edge |-> << <<0, 1>>, <<1, 0>>, <<1, 1>> >>,
     valid_edge |-> << <<0, 1>>, <<0, 0>> >>,
     valid_edge_label |-> <<1, 0>>,
     test_edge |-> << <<1, 1>>, <<1, 0>> >>,
     test_edge_label |-> <<1, 0>>]

\* A split over a single node with four train edges.
DataLoop ==
    [num_nodes |-> 1,
     train_edge |-> Rep(<<0, 0>>, 4),
     valid_edge |-> Rep(<<0, 0>>, 2),
     valid_edge_label |-> <<1, 0>>,
     test_edge |-> Rep(<<0, 0>>, 2),
     test_edge_label |-> <<0, 1>>]

Args(runs, epochs, eval_steps, batch_size, num_layers) ==
    [runs |-> runs, epochs |-> epochs, eval_steps |-> eval_steps,
     batch_size |-> batch_size, num_layers |-> num_layers]

\* The run/epoch loop: every combination of runs, epochs, eval_steps and batch_size.
MainInputs ==
    {[args |-> Args(r, e, s, b, 3), data |-> DataLoop] :
        r \in 1..MaxRuns, e \in 1..MaxEpochs, s \in 1..MaxEvalSteps, b \in 1..MaxBatch}

\* One run of one or more epochs: every batch size.
TrainInputs ==
    {[args |-> Args(1, e, 1, b, 2), data |-> d] :
        e \in 1..MaxEpochs, b \in 1..MaxBatch, d \in {DataTrain, DataLoop}}

\* One evaluation: every batch size and depth, on each split.
EvalInputs ==
    {[args |-> Args(1, 1, 1, b, l), data |-> d] :
        b \in 1..MaxBatch, l \in 2..MaxLayers, d \in {DataSmall, DataBig, DataOdd}}

Init == InitWith(MainInputs)
InitTrain == InitWith(TrainInputs)
InitEval == InitWith(EvalInputs)

Spec == Init /\ [][Next]_vars
SpecTrain == InitTrain /\ [][Next]_vars
SpecEval == InitEval /\ [][Next]_vars

(***************************************************************************)
(* Properties                                                              *)
(***************************************************************************)
IsPrefix(s, t) == Len(s) <= Len(t) /\ SubSeq(t, 1, Len(s)) = s

RunIds == 0..(args.runs - 1)

CeilDiv(n, b) == (n + b - 1) \div b

\* The epochs of run r whose body, evaluation included, is over.
EpochsDone(r) ==
    IF r < run THEN args.epochs
    ELSE IF r > run \/ pc = "run_start" THEN 0
    ELSE IF pc = "run_end" THEN args.epochs
    ELSE epoch - 1

\* The multiples of eval_steps among 1..m, in increasing order.
DueEpochs(m) == [i \in 1..(m \div args.eval_steps) |-> i * args.eval_steps]

C1_Lengths ==
    \A r \in RunIds :
        /\ hist.evals[r] = DueEpochs(EpochsDone(r))
        /\ \A key \in {"Hits@10", "Hits@50", "Hits@100"} :
               /\ Len(loggers[key][r]) = Len(hist.evals[r])
               /\ \A i \in 1..Len(loggers[key][r]) : Len(loggers[key][r][i]) = 3

C1_Step ==
    /\ \A key \in DOMAIN loggers : \A r \in RunIds :
           IsPrefix(loggers[key][r], loggers'[key][r])
    /\ hist'.evals # hist.evals =>
           \A key \in DOMAIN loggers : \A r \in RunIds :
               loggers'[key][r] =
                   IF r = run THEN Append(loggers[key][r], results'[key])
                   ELSE loggers[key][r]

\* C1: a run is evaluated exactly at the epochs that are multiples of eval_steps; each
\* evaluation appends one (train, valid, test) triple to the run's history of each of
\* the three metrics, so a history is as long as the number of evaluations of its run,
\* and a recorded entry is never changed or removed.
C1_History == [](C1_Lengths) /\ [][C1_Step]_vars

\* Two runs, each evaluated at epoch 2 only.
C1_Witness ==
    /\ args.runs = 2
    /\ run = 1
    /\ args.eval_steps = 2
    /\ hist.evals[0] = <<2>>
    /\ hist.evals[1] = <<2>>
    /\ Len(loggers["Hits@50"][1]) = 1

Range(s) == {s[i] : i \in 1..Len(s)}

RECURSIVE Concat(_)
Concat(ss) == IF ss = <<>> THEN <<>> ELSE Head(ss) \o Concat(Tail(ss))

\* C2: with 1 <= B <= |train edges|, the positive batches of an epoch are the
\* ceil(|train edges| / B) chunks of a permutation of the train-edge indices: every
\* index is in exactly one batch, every batch but the last has B indices and the last
\* has between 1 and B.
C2_Batches ==
    (pc = "batch" /\ batches = <<>> /\ args.batch_size <= Len(data.train_edge)) =>
        LET n == Len(data.train_edge)
            b == args.batch_size
            ys == hist.yielded
        IN  /\ Len(ys) = CeilDiv(n, b)
            /\ Len(Concat(ys)) = n
            /\ Range(Concat(ys)) = 0..(n - 1)
            /\ \A i \in 1..(Len(ys) - 1) : Len(ys[i]) = b
            /\ Len(ys[Len(ys)]) \in 1..b
            /\ total_examples = n

\* Three train edges in batches of two: the last batch is shorter.
C2_Witness ==
    /\ pc = "batch"
    /\ batches = <<>>
    /\ args.batch_size = 2
    /\ Len(data.train_edge) = 3
    /\ Len(hist.yielded) = 2
    /\ Len(hist.yielded[2]) = 1

\* The scores of an edge set in its order, each edge scored on its own.
ScoresOf(edges) ==
    [i \in 1..Len(edges) |->
        Forward(lins, norms, x[edges[i][1]], x[edges[i][2]], FALSE)]

\* C3: for every edge set of size n >= 1 and every batch_size B > 0, also when the last
\* batch holds a single edge, scoring completes and the concatenated scores of the set
\* are the scores of its edges in their original order.
C3_Scoring ==
    hist.last \in {"tested", "crashed"} =>
        /\ preds.ok
        /\ preds.pos_train_pred = ScoresOf(data.train_edge)
        /\ preds.valid_pred = ScoresOf(data.valid_edge)
        /\ preds.test_pred = ScoresOf(data.test_edge)

\* C4: an evaluation returns a mapping with exactly the keys Hits@10, Hits@50 and
\* Hits@100, and the value under Hits@K is the triple of hits_at_k at that K of (train
\* positives, valid negatives), (valid positives, valid negatives), (test positives,
\* test negatives).
C4_Results ==
    hist.last = "tested" =>
        /\ DOMAIN results = {"Hits@10", "Hits@50", "Hits@100"}
        /\ \A kk \in {<<"Hits@10", 10>>, <<"Hits@50", 50>>, <<"Hits@100", 100>>} :
               results[kk[1]] =
                   << HitsAtK(preds.pos_train_pred, preds.neg_valid_pred, kk[2]),
                      HitsAtK(preds.pos_valid_pred, preds.neg_valid_pred, kk[2]),
                      HitsAtK(preds.pos_test_pred, preds.neg_test_pred, kk[2]) >>

\* An evaluation where the test negatives would rank the train positives differently
\* and where the three values of K give three different train results.
C4_Witness ==
    /\ hist.last = "tested"
    /\ results["Hits@10"][1] # HitsAtK(preds.pos_train_pred, preds.neg_test_pred, 10)
    /\ results["Hits@10"][1] # results["Hits@50"][1]
    /\ results["Hits@50"][1] # results["Hits@100"][1]
    /\ Len(preds.neg_valid_pred) > 100

\* The positions of a label sequence that carry the label val.
Where(label, val) == {i \in 1..Len(label) : label[i] = val}

\* part holds exactly the elements of whole at the positions in at, in their order.
IsRestriction(part, whole, at) ==
    /\ Len(part) = Cardinality(at)
    /\ \A i \in at : part[1 + Cardinality({j \in at : j < i})] = whole[i]

\* C5: for the valid set and the test set, the positive scores are the scores at the
\* positions labelled 1 and the negative scores those at the positions labelled 0, each
\* in the original order; the two groups share no position and cover every score once.
C5_Partition ==
    hist.last = "tested" =>
        /\ IsRestriction(preds.pos_valid_pred, preds.valid_pred, Where(data.valid_edge_label, 1))
        /\ IsRestriction(preds.neg_valid_pred, preds.valid_pred, Where(data.valid_edge_label, 0))
        /\ IsRestriction(preds.pos_test_pred, preds.test_pred, Where(data.test_edge_label, 1))
        /\ IsRestriction(preds.neg_test_pred, preds.test_pred, Where(data.test_edge_label, 0))
        /\ Len(preds.pos_valid_pred) + Len(preds.neg_valid_pred) = Len(data.valid_edge)
        /\ Len(preds.pos_test_pred) + Len(preds.neg_test_pred) = Len(data.test_edge)

\* An evaluation of a set whose positives and negatives are interleaved and score
\* differently.
C5_Witness ==
    /\ hist.last = "tested"
    /\ Len(preds.pos_valid_pred) = 3
    /\ Len(preds.neg_valid_pred) = 105
    /\ preds.pos_valid_pred[2] # preds.pos_valid_pred[3]
    /\ preds.pos_test_pred # preds.pos_valid_pred

DropoutFlags(ops) == {ops[i].active : i \in {j \in 1..Len(ops) : ops[j].op = "dropout"}}

C6_Modes ==
    /\ trace.by = "train" => trace.mode /\ DropoutFlags(trace.ops) = {TRUE}
    /\ trace.by = "test" => ~trace.mode /\ DropoutFlags(trace.ops) = {FALSE}
    /\ hist.last \in {"tested", "crashed"} => ~preds.mode

C6_Step ==
    /\ pc = "eval" => x' = x /\ lins' = lins /\ norms' = norms
    /\ (x' # x \/ lins' # lins \/ norms' # norms) =>
           \/ pc = "batch" /\ batches # <<>> /\ hist'.steps = hist.steps + 1
           \/ pc = "run_start" /\ hist'.xResets[run] = hist.xResets[run] + 1

\* C6: an evaluation leaves the embedding table and the Scorer parameters unchanged and
\* scores in inference mode; every training batch, also after an evaluation, is
\* processed in training mode; the parameters change only in the optimizer update of a
\* training batch or in the reset that starts a run.
C6_Frame == [](C6_Modes) /\ [][C6_Step]_vars

\* A training batch processed after an evaluation has completed.
C6_Witness ==
    /\ hist.last = "batch"
    /\ trace.by = "train"
    /\ preds.ok
    /\ \E r \in RunIds : Len(hist.evals[r]) > 0

\* Run r has started its body.
Started(r) == r < run \/ (r = run /\ pc \notin {"run_start", "final", "done"})

\* The batches and evaluations of run r are all done.
Complete(r) ==
    /\ hist.trained[r] = args.epochs * CeilDiv(Len(data.train_edge), args.batch_size)
    /\ hist.evals[r] = DueEpochs(args.epochs)

C7_Counts ==
    /\ \A r \in RunIds :
           /\ hist.xResets[r] = (IF Started(r) THEN 1 ELSE 0)
           /\ hist.pResets[r] = (IF Started(r) THEN 1 ELSE 0)
           /\ hist.trained[r] > 0 => Started(r)
    /\ pc \in {"train", "batch", "eval", "run_end", "crashed"} =>
           /\ optimizer.run = run
           /\ optimizer.id = run + 1
           /\ optimizer.resets = 2

C7_Step ==
    (hist'.xResets # hist.xResets \/ hist'.pResets # hist.pResets) =>
        /\ hist.trained[run] = 0
        /\ hist'.trained[run] = 0
        /\ \A r \in RunIds : r < run => Complete(r)
        /\ optimizer'.id = optimizer.id + 1

\* C7: in every run the embedding table and the Scorer parameters are each reset
\* exactly once, before the run's first training batch and after the last batch and
\* evaluation of the previous run, never between epochs; the run's optimizer is built
\* after that reset and belongs to this run alone.
C7_Resets == [](C7_Counts) /\ [][C7_Step]_vars

\* The second run is training its second epoch after a complete first run.
C7_Witness ==
    /\ args.runs = 2
    /\ run = 1
    /\ epoch = 2
    /\ hist.last = "batch"
    /\ hist.xResets = (0 :> 1 @@ 1 :> 1)
    /\ optimizer.id = 2

\* The operations the forward pass is said to apply for num_layers = l.
RECURSIVE ClaimedHidden(_, _, _)
ClaimedHidden(i, m, tr) ==
    IF i > m THEN <<>>
    ELSE << [op |-> "lin", layer |-> i],
            [op |-> "norm", layer |-> i],
            [op |-> "relu", layer |-> i],
            [op |-> "dropout", layer |-> i, active |-> tr] >>
             \o ClaimedHidden(i + 1, m, tr)

ClaimedOps(l, tr) ==
    << [op |-> "mul"] >> \o ClaimedHidden(1, l - 1, tr)
        \o << [op |-> "lin", layer |-> l], [op |-> "sigmoid"] >>

\* C8: for every L >= 2 the forward pass applies the elementwise product, then L affine
\* layers, each but the last followed by normalization, rectified-linear activation
\* and dropout (active only in training mode), then a sigmoid.
C8_Forward ==
    trace.by # "none" => trace.ops = ClaimedOps(args.num_layers, trace.mode)

\* C9: for a positive batch of B >= 1 edges the negative batch has exactly 2 * B node
\* pairs with both ids in [0, N); none is dropped for being a train edge or a
\* self-loop; a negative batch is drawn for every positive batch.
C9_Negatives ==
    hist.last = "batch" =>
        /\ Len(pos_edge) >= 1
        /\ Len(edge[1]) = 2 * Len(pos_edge)
        /\ Len(edge[2]) = 2 * Len(pos_edge)
        /\ Len(Pairs(edge)) = 2 * Len(pos_edge)
        /\ \A i \in 1..Len(edge[1]) :
               edge[1][i] \in 0..(data.num_nodes - 1) /\ edge[2][i] \in 0..(data.num_nodes - 1)
        /\ hist.draws = hist.steps

\* A negative batch that holds a self-loop and a train edge, drawn for the second
\* batch of an epoch.
C9_Witness ==
    /\ hist.last = "batch"
    /\ Len(hist.yielded) = 2
    /\ Len(edge[1]) = 2
    /\ Pairs(edge)[1][1] = Pairs(edge)[1][2]
    /\ Pairs(edge)[2] \in Range(data.train_edge)
    /\ Pairs(edge)[2][1] # Pairs(edge)[2][2]

\* C10: within one evaluation, for each of train, valid and test, Hits@10 <= Hits@50 <=
\* Hits@100 (the three are fractions of the same positives).
C10_Monotone ==
    hist.last = "tested" =>
        \A i \in 1..3 :
            /\ results["Hits@10"][i][2] = results["Hits@50"][i][2]
            /\ results["Hits@50"][i][2] = results["Hits@100"][i][2]
            /\ results["Hits@10"][i][1] <= results["Hits@50"][i][1]
            /\ results["Hits@50"][i][1] <= results["Hits@100"][i][1]

\* An evaluation over more than 100 negatives where the train Hits grow strictly with K.
C10_Witness ==
    /\ hist.last = "tested"
    /\ Len(preds.neg_valid_pred) > 100
    /\ results["Hits@10"][1][1] < results["Hits@50"][1][1]
    /\ results["Hits@50"][1][1] < results["Hits@100"][1][1]
    /\ results["Hits@10"][3][1] < results["Hits@50"][3][1]
====
